---- MODULE Spec2Model ----
(***************************************************************************)
(* Model of src/app.py, the Streamlit meeting summariser.                  *)
(*                                                                         *)
(* Streamlit executes the whole script once per user interaction and per   *)
(* browser session, each session in a thread of its own.  A session's      *)
(* script execution is modelled as a process whose steps are the script's  *)
(* blocking operations (file create, write, open, the two remote calls,    *)
(* unlink); the straight-line code between two blocking operations         *)
(* belongs to the step that precedes it.  The filesystem and the process   *)
(* environment are shared by all sessions.                                 *)
(*                                                                         *)
(* Python values: an Optional value is None (<<>>) or <<v>>.  Exception     *)
(* texts (str(e)) are strings.                                             *)
(***************************************************************************)
EXTENDS Integers, Sequences, FiniteSets, TLC

\* ---------------------------------------------------------------- bounds
NumSessions == 2      \* browser sessions (script threads)
MaxRuns == 2          \* script executions in a behaviour, all sessions together
NumStems == 2         \* distinct random stems tempfile can draw

Sessions == 1..NumSessions
Stems == 1..NumStems

\* ------------------------------------------------------- Python values
None == <<>>
Some(v) == <<v>>

\* Truthiness of an Optional[str] (`if transcript:`, `if not summary:`).
Truthy(x) == x # None /\ x[1] # ""

\* Truthiness of an Optional path (`if temp_path:`); a temp path is never "".
TruthyPath(x) == x # None

RECURSIVE RFind(_, _, _)
\* str.rfind: the largest index <= i holding c, 0 when there is none (1-based).
RFind(name, c, i) ==
  IF i = 0 THEN 0
  ELSE IF name[i] = c THEN i ELSE RFind(name, c, i - 1)

RECURSIVE Find(_, _, _)
\* str.find: the smallest index >= i holding c, 0 when there is none.
Find(name, c, i) ==
  IF i > Len(name) THEN 0
  ELSE IF name[i] = c THEN i ELSE Find(name, c, i + 1)

\* Variant: the suffix taken from the first dot of the name, not the last.
Suffix_FirstDot(name) ==
  LET i == Find(name, ".", 1)
  IN  IF 1 < i /\ i < Len(name) THEN SubSeq(name, i, Len(name)) ELSE <<>>

\* pathlib's PurePath.suffix on a file name given as a sequence of pieces,
\* "." being the separator piece: name[i:] for the last dot, when that dot is
\* neither the first nor the last character, "" (<<>>) otherwise.
Suffix(name) ==
  LET i == RFind(name, ".", Len(name))
  IN  IF 1 < i /\ i < Len(name) THEN SubSeq(name, i, Len(name)) ELSE <<>>

\* ------------------------------------------------------------- inputs
\* What st.file_uploader(type=['mp3','wav','m4a']) can hand to the script.
Uploads ==
  { [name |-> <<"call", ".", "wav">>, buf |-> <<1, 2>>],
    [name |-> <<"a", ".", "b", ".", "mp3">>, buf |-> <<3>>] }

\* The uploads the staging stage is examined with: those, and more names.
StagingUploads ==
  Uploads \cup
  { [name |-> <<"x", ".", "m4a">>, buf |-> <<4, 5, 6>>],
    [name |-> <<".", "rec", ".", "wav">>, buf |-> <<7>>] }

Suffixes == { Suffix(u.name) : u \in StagingUploads }
Paths == [stem : Stems, suffix : Suffixes]

\* OPENAI_API_KEY in the process environment: unset, set to "", or set.
EnvKeys == { None, Some(""), Some("sk-key") }

\* What the transcription endpoint can answer with response_format="text".
TranscriptionReturns == { None, Some(""), Some("Hello team") }
\* What choices[0].message.content can be.
SummaryReturns == { None, Some(""), Some("- Revenue up") }

NoFile == [exists |-> FALSE]
File(owner, content) == [exists |-> TRUE, owner |-> owner, content |-> content]

\* ---------------------------------------------------------- UI elements
Elem(w, msg, arg) == [w |-> w, msg |-> msg, arg |-> arg]

Title == Elem("title", "Meeting Summarizer", "")
Intro == Elem("write", "Upload an audio recording to get a summary", "")
Uploader == Elem("file_uploader", "Choose an audio file", "")
ErrSave(e) == Elem("error", "Error saving file: ", e)
ErrTranscription(e) == Elem("error", "Transcription error: ", e)
ErrSummarization(e) == Elem("error", "Summarization error: ", e)
ErrFailedUpload == Elem("error", "Failed to process uploaded file. Please try again.", "")
ErrFailedTranscribe ==
  Elem("error", "Failed to transcribe audio. Please check the file and try again.", "")
ErrFailedSummary == Elem("error", "Failed to generate summary. Please try again.", "")
ErrUnexpected(e) == Elem("error", "An unexpected error occurred: ", e)
WarnDelete(e) == Elem("warning", "Warning: Could not delete temporary file: ", e)
ErrNoKey ==
  Elem("error",
       "OpenAI API key not found. Please set your OPENAI_API_KEY environment variable.", "")
UncaughtException(e) == Elem("exception", "", e)
SubheaderTranscript == Elem("subheader", "Transcript", "")
TextAreaTranscript(t) == Elem("text_area", "Full Transcript", t)
SubheaderSummary == Elem("subheader", "Summary", "")
WriteSummary(t) == Elem("write", "", t)

InfoProcessing == Elem("info", "Processing your audio file... Please wait.", "")
InfoTranscribing == Elem("info", "Transcribing audio...", "")
InfoGenerating == Elem("info", "Generating summary...", "")
SuccessComplete == Elem("success", "Processing complete!", "")

EmptyTranscription == "Transcription returned empty result"
EmptySummary == "Summary generation returned empty result"

\* ---------------------------------------------------------------- state
VARIABLES
  env_key,             \* OPENAI_API_KEY of the process
  offered,             \* the file the users have at hand to upload
  fs,                  \* the temp directory: path -> file
  pc,                  \* per session: where its script execution stands
  run,                 \* per session: how many executions it has started
  client,              \* per session: the module-level OpenAI client
  uploaded_file,       \* per session: what the uploader returned
  tmp_file,            \* per session: save_uploaded_file's open write handle
  temp_path,           \* per session: the orchestrator's temp_path
  audio_file,          \* per session: transcribe_audio's open read handle
  transcript,          \* per session: the orchestrator's transcript
  summary,             \* per session: the orchestrator's summary
  ui,                  \* per session: the elements rendered, in order
  processing_message,  \* per session: content of the st.empty() placeholder
  events,              \* per session: the I/O operations started, in order
  responses            \* per session: what the remote services answered, in order

vars ==
  << env_key, offered, fs, pc, run, client, uploaded_file, tmp_file, temp_path,
     audio_file, transcript, summary, ui, processing_message, events,
     responses >>

Set(f, s, v) == [f EXCEPT ![s] = v]

RECURSIVE SumTo(_, _)
SumTo(f, n) == IF n = 0 THEN 0 ELSE f[n] + SumTo(f, n - 1)

\* Script executions started so far, all sessions together.
RunsStarted == SumTo(run, NumSessions)

\* The execution a session is in: the session and its execution count.
RunId(s) == <<s, run[s]>>

\* Nothing staged, no session has executed the script yet.
InitSessions ==
  /\ fs = [p \in Paths |-> NoFile]
  /\ pc = [s \in Sessions |-> "idle"]
  /\ run = [s \in Sessions |-> 0]
  /\ client = [s \in Sessions |-> None]
  /\ uploaded_file = [s \in Sessions |-> None]
  /\ tmp_file = [s \in Sessions |-> None]
  /\ temp_path = [s \in Sessions |-> None]
  /\ audio_file = [s \in Sessions |-> None]
  /\ transcript = [s \in Sessions |-> None]
  /\ summary = [s \in Sessions |-> None]
  /\ ui = [s \in Sessions |-> <<>>]
  /\ processing_message = [s \in Sessions |-> None]
  /\ events = [s \in Sessions |-> <<>>]
  /\ responses = [s \in Sessions |-> <<>>]

Init ==
  /\ env_key \in EnvKeys
  /\ offered \in Uploads
  /\ InitSessions

\* The process has its API key; the users have any one of the staging uploads.
InitStaging ==
  /\ env_key = Some("sk-key")
  /\ offered \in StagingUploads
  /\ InitSessions

\* ------------------------------------------------- the remote services
\* A response of a remote call: it raised e, or it returned value.
Raised(e) == [raised |-> TRUE, e |-> e, value |-> None]
Returned(v) == [raised |-> FALSE, e |-> "", value |-> v]

TranscriptionResponses ==
  { Raised("APIConnectionError") } \cup { Returned(v) : v \in TranscriptionReturns }

\* Raised stands for every exception of lines 43-54, the IndexError of
\* choices[0] on an answer without choices included: line 58 treats all alike.
SummarizationResponses ==
  { Raised("APIConnectionError") } \cup { Returned(v) : v \in SummaryReturns }

\* ------------------------------------------------------ line 8, 112-114
\* OpenAI(): the api_key defaults to OPENAI_API_KEY; the constructor raises
\* OpenAIError when that is not set, and accepts any string, "" included.
OpenAI(key) ==
  IF key = None
    THEN [raised |-> TRUE, api_key |-> ""]
    ELSE [raised |-> FALSE, api_key |-> key[1]]

\* `if not client.api_key: st.error(...)`, the last statement of the script:
\* the elements rendered once the script has run to its end from u.
APIKeyCheck(c, u) == IF c.api_key = "" THEN Append(u, ErrNoKey) ELSE u

\* Variant: no try around the body, its exceptions reach the caller.
transcribe_audio_NoTry(resp) ==
  IF resp.raised
    THEN [ret |-> None, shown |-> <<>>, escaped |-> Some(resp.e)]
    ELSE IF ~Truthy(resp.value)
      THEN [ret |-> None, shown |-> <<>>, escaped |-> Some(EmptyTranscription)]
      ELSE [ret |-> resp.value, shown |-> <<>>, escaped |-> None]

\* Variant: line 31's check for an empty result left out.
transcribe_audio_NoEmptyCheck(resp) ==
  IF resp.raised
    THEN [ret |-> None, shown |-> <<ErrTranscription(resp.e)>>, escaped |-> None]
    ELSE [ret |-> resp.value, shown |-> <<>>, escaped |-> None]

\* Variant: line 36 returning the exception text in place of None.
transcribe_audio_ReturnsError(resp) ==
  IF resp.raised
    THEN [ret |-> Some(resp.e), shown |-> <<ErrTranscription(resp.e)>>, escaped |-> None]
    ELSE IF ~Truthy(resp.value)
      THEN [ret |-> Some(EmptyTranscription),
            shown |-> <<ErrTranscription(EmptyTranscription)>>, escaped |-> None]
      ELSE [ret |-> resp.value, shown |-> <<>>, escaped |-> None]

\* ------------------------------------------------------- stage functions
\* A stage function ends with a return value (ret), having shown some
\* elements, or with an exception that leaves it (escaped).

\* save_uploaded_file from an exception e of lines 13-15 on (lines 16-18).
save_uploaded_file_except(e) ==
  [ret |-> None, shown |-> <<ErrSave(e)>>, escaped |-> None]

\* transcribe_audio from the response on: its return value and what it shows.
transcribe_audio(resp) ==
  IF resp.raised
    THEN [ret |-> None, shown |-> <<ErrTranscription(resp.e)>>, escaped |-> None]
    ELSE IF ~Truthy(resp.value)
      THEN [ret |-> None, shown |-> <<ErrTranscription(EmptyTranscription)>>,
            escaped |-> None]
      ELSE [ret |-> resp.value, shown |-> <<>>, escaped |-> None]

\* summarize_transcript from the response on.
summarize_transcript(resp) ==
  IF resp.raised
    THEN [ret |-> None, shown |-> <<ErrSummarization(resp.e)>>, escaped |-> None]
    ELSE IF ~Truthy(resp.value)
      THEN [ret |-> None, shown |-> <<ErrSummarization(EmptySummary)>>, escaped |-> None]
      ELSE [ret |-> resp.value, shown |-> <<>>, escaped |-> None]

\* Variant: the name taken without O_EXCL, whether or not a file has it.
FreeName_Any(p) == TRUE

\* tempfile opens the new name with O_EXCL: a name is taken only if no file
\* has it.
FreeName(p) == ~fs[p].exists

\* Variant: a failed save is tried again instead of ending the run.
AfterSave_Retry(s, tp, u) ==
  /\ temp_path' = Set(temp_path, s, tp)
  /\ IF TruthyPath(tp)
       THEN /\ processing_message' = Set(processing_message, s, Some(InfoTranscribing))
            /\ ui' = Set(ui, s, u)
            /\ pc' = Set(pc, s, "open")
       ELSE /\ UNCHANGED processing_message
            /\ ui' = Set(ui, s, Append(u, ErrFailedUpload))
            /\ pc' = Set(pc, s, "save_create")

\* ---------------------------------------------------------- orchestrator
\* Lines 75-81 and 109-114: save_uploaded_file returned tp, having rendered u.
AfterSave(s, tp, u) ==
  /\ temp_path' = Set(temp_path, s, tp)
  /\ IF TruthyPath(tp)
       THEN /\ processing_message' = Set(processing_message, s, Some(InfoTranscribing))
            /\ ui' = Set(ui, s, u)
            /\ pc' = Set(pc, s, "open")
       ELSE /\ UNCHANGED processing_message
            /\ ui' = Set(ui, s, APIKeyCheck(client[s][1], Append(u, ErrFailedUpload)))
            /\ pc' = Set(pc, s, "done")

\* Variant: a failed transcription is tried a second time.
AfterTranscribe_RetryOnce(s, t, u) ==
  /\ transcript' = Set(transcript, s, t)
  /\ IF Truthy(t)
       THEN /\ ui' = Set(ui, s, u \o <<SubheaderTranscript, TextAreaTranscript(t[1])>>)
            /\ processing_message' = Set(processing_message, s, Some(InfoGenerating))
            /\ events' = Set(events, s, Append(events[s], "summarize"))
            /\ pc' = Set(pc, s, "summarizing")
       ELSE /\ ui' = Set(ui, s, Append(u, ErrFailedTranscribe))
            /\ UNCHANGED <<processing_message, events>>
            /\ pc' = Set(pc, s, IF Len(events[s]) < 3 THEN "open" ELSE "unlink")

\* Variant: the cleanup outside a finally block, skipped when transcription
\* fails.
AfterTranscribe_NoFinally(s, t, u) ==
  /\ transcript' = Set(transcript, s, t)
  /\ IF Truthy(t)
       THEN /\ ui' = Set(ui, s, u \o <<SubheaderTranscript, TextAreaTranscript(t[1])>>)
            /\ processing_message' = Set(processing_message, s, Some(InfoGenerating))
            /\ events' = Set(events, s, Append(events[s], "summarize"))
            /\ pc' = Set(pc, s, "summarizing")
       ELSE /\ ui' = Set(ui, s, APIKeyCheck(client[s][1], Append(u, ErrFailedTranscribe)))
            /\ UNCHANGED <<processing_message, events>>
            /\ pc' = Set(pc, s, "done")

\* Variant: line 83's test left out, the summary requested whatever
\* transcribe_audio returned.
AfterTranscribe_NoCheck(s, t, u) ==
  /\ transcript' = Set(transcript, s, t)
  /\ ui' = Set(ui, s, u \o <<SubheaderTranscript,
                              TextAreaTranscript(IF Truthy(t) THEN t[1] ELSE "")>>)
  /\ processing_message' = Set(processing_message, s, Some(InfoGenerating))
  /\ events' = Set(events, s, Append(events[s], "summarize"))
  /\ pc' = Set(pc, s, "summarizing")

\* Variant: the status indicator emptied when the transcription fails.
AfterTranscribe_ClearsStatus(s, t, u) ==
  /\ transcript' = Set(transcript, s, t)
  /\ IF Truthy(t)
       THEN /\ ui' = Set(ui, s, u \o <<SubheaderTranscript, TextAreaTranscript(t[1])>>)
            /\ processing_message' = Set(processing_message, s, Some(InfoGenerating))
            /\ events' = Set(events, s, Append(events[s], "summarize"))
            /\ pc' = Set(pc, s, "summarizing")
       ELSE /\ ui' = Set(ui, s, Append(u, ErrFailedTranscribe))
            /\ processing_message' = Set(processing_message, s, None)
            /\ UNCHANGED events
            /\ pc' = Set(pc, s, "unlink")

\* Lines 81-89 and 97-103: transcribe_audio returned t, u being rendered; the
\* summarisation request is sent, or the finally block is entered.
AfterTranscribe(s, t, u) ==
  /\ transcript' = Set(transcript, s, t)
  /\ IF Truthy(t)
       THEN /\ ui' = Set(ui, s, u \o <<SubheaderTranscript, TextAreaTranscript(t[1])>>)
            /\ processing_message' = Set(processing_message, s, Some(InfoGenerating))
            /\ events' = Set(events, s, Append(events[s], "summarize"))
            /\ pc' = Set(pc, s, "summarizing")
       ELSE /\ ui' = Set(ui, s, Append(u, ErrFailedTranscribe))
            /\ UNCHANGED <<processing_message, events>>
            /\ pc' = Set(pc, s, "unlink")

\* Variant: the cleanup outside a finally block, skipped when the summary
\* fails.
AfterSummarize_NoFinally(s, sm, u) ==
  /\ summary' = Set(summary, s, sm)
  /\ IF Truthy(sm)
       THEN /\ ui' = Set(ui, s, u \o <<SubheaderSummary, WriteSummary(sm[1])>>)
            /\ processing_message' = Set(processing_message, s, Some(SuccessComplete))
            /\ pc' = Set(pc, s, "unlink")
       ELSE /\ ui' = Set(ui, s, APIKeyCheck(client[s][1], Append(u, ErrFailedSummary)))
            /\ UNCHANGED processing_message
            /\ pc' = Set(pc, s, "done")

\* Variant: a failed summary replaces what the run has rendered so far.
AfterSummarize_Rollback(s, sm, u) ==
  /\ summary' = Set(summary, s, sm)
  /\ IF Truthy(sm)
       THEN /\ ui' = Set(ui, s, u \o <<SubheaderSummary, WriteSummary(sm[1])>>)
            /\ processing_message' = Set(processing_message, s, Some(SuccessComplete))
       ELSE /\ ui' = Set(ui, s, <<Title, Intro, Uploader, ErrFailedSummary>>)
            /\ UNCHANGED processing_message
  /\ pc' = Set(pc, s, "unlink")

\* Variant: line 91's test left out, success reported whatever
\* summarize_transcript returned.
AfterSummarize_AlwaysSuccess(s, sm, u) ==
  /\ summary' = Set(summary, s, sm)
  /\ ui' = Set(ui, s, u \o <<SubheaderSummary,
                              WriteSummary(IF Truthy(sm) THEN sm[1] ELSE "")>>)
  /\ processing_message' = Set(processing_message, s, Some(SuccessComplete))
  /\ pc' = Set(pc, s, "unlink")

\* Lines 89-96 and 103: summarize_transcript returned sm, u being rendered.
AfterSummarize(s, sm, u) ==
  /\ summary' = Set(summary, s, sm)
  /\ IF Truthy(sm)
       THEN /\ ui' = Set(ui, s, u \o <<SubheaderSummary, WriteSummary(sm[1])>>)
            /\ processing_message' = Set(processing_message, s, Some(SuccessComplete))
       ELSE /\ ui' = Set(ui, s, Append(u, ErrFailedSummary))
            /\ UNCHANGED processing_message
  /\ pc' = Set(pc, s, "unlink")

\* Line 75: an exception e is raised in the body of save_uploaded_file.  The
\* call is outside the orchestrator's try: an exception leaving the function
\* would stop the script.
SaveRaised(s, e) ==
  LET r == save_uploaded_file_except(e) IN
    IF r.escaped # None
      THEN /\ ui' = Set(ui, s, Append(ui[s] \o r.shown, UncaughtException(r.escaped[1])))
           /\ pc' = Set(pc, s, "crashed")
           /\ UNCHANGED <<temp_path, processing_message>>
      ELSE AfterSave(s, r.ret, ui[s] \o r.shown)

\* Lines 81 and 100-103: transcribe_audio ends on the response resp; an
\* exception leaving it is shown by the orchestrator's except clause and the
\* finally block is entered.
TranscribeEnds(s, resp) ==
  LET r == transcribe_audio(resp) IN
    IF r.escaped # None
      THEN /\ ui' = Set(ui, s, Append(ui[s] \o r.shown, ErrUnexpected(r.escaped[1])))
           /\ pc' = Set(pc, s, "unlink")
           /\ UNCHANGED <<transcript, processing_message, events>>
      ELSE AfterTranscribe(s, r.ret, ui[s] \o r.shown)

\* Lines 89 and 100-103: summarize_transcript ends on the response resp.
SummarizeEnds(s, resp) ==
  LET r == summarize_transcript(resp) IN
    IF r.escaped # None
      THEN /\ ui' = Set(ui, s, Append(ui[s] \o r.shown, ErrUnexpected(r.escaped[1])))
           /\ pc' = Set(pc, s, "unlink")
           /\ UNCHANGED <<summary, processing_message>>
      ELSE AfterSummarize(s, r.ret, ui[s] \o r.shown)

\* Variant: the transcript of the session's previous execution kept (as
\* st.session_state would keep it).
Start_KeepsTranscript(s) ==
  /\ pc[s] \in {"idle", "done", "crashed"}
  /\ RunsStarted < MaxRuns
  /\ run' = Set(run, s, run[s] + 1)
  /\ tmp_file' = Set(tmp_file, s, None)
  /\ temp_path' = Set(temp_path, s, None)
  /\ audio_file' = Set(audio_file, s, None)
  /\ UNCHANGED transcript
  /\ summary' = Set(summary, s, None)
  /\ events' = Set(events, s, <<>>)
  /\ responses' = Set(responses, s, <<>>)
  /\ LET c == OpenAI(env_key) IN
       IF c.raised
         THEN /\ client' = Set(client, s, None)
              /\ uploaded_file' = Set(uploaded_file, s, None)
              /\ processing_message' = Set(processing_message, s, None)
              /\ ui' = Set(ui, s, <<UncaughtException("OpenAIError")>>)
              /\ pc' = Set(pc, s, "crashed")
         ELSE \E up \in {None, Some(offered)} :
              /\ client' = Set(client, s, Some(c))
              /\ uploaded_file' = Set(uploaded_file, s, up)
              /\ IF up # None
                   THEN /\ processing_message' =
                             Set(processing_message, s, Some(InfoProcessing))
                        /\ ui' = Set(ui, s, <<Title, Intro, Uploader>>)
                        /\ pc' = Set(pc, s, "save_create")
                   ELSE /\ processing_message' = Set(processing_message, s, None)
                        /\ ui' = Set(ui, s, APIKeyCheck(c, <<Title, Intro, Uploader>>))
                        /\ pc' = Set(pc, s, "done")
  /\ UNCHANGED <<env_key, offered, fs>>

\* ---------------------------------------------------------------- steps
\* A user interaction starts a script execution: lines 1-72, and 112-114 when
\* nothing is uploaded.  An exception of line 8 is caught by nobody: Streamlit
\* renders it and the execution stops there.
Start(s) ==
  /\ pc[s] \in {"idle", "done", "crashed"}
  /\ RunsStarted < MaxRuns
  /\ run' = Set(run, s, run[s] + 1)
  /\ tmp_file' = Set(tmp_file, s, None)
  /\ temp_path' = Set(temp_path, s, None)
  /\ audio_file' = Set(audio_file, s, None)
  /\ transcript' = Set(transcript, s, None)
  /\ summary' = Set(summary, s, None)
  /\ events' = Set(events, s, <<>>)
  /\ responses' = Set(responses, s, <<>>)
  /\ LET c == OpenAI(env_key) IN
       IF c.raised
         THEN /\ client' = Set(client, s, None)
              /\ uploaded_file' = Set(uploaded_file, s, None)
              /\ processing_message' = Set(processing_message, s, None)
              /\ ui' = Set(ui, s, <<UncaughtException("OpenAIError")>>)
              /\ pc' = Set(pc, s, "crashed")
         ELSE \E up \in {None, Some(offered)} :
              /\ client' = Set(client, s, Some(c))
              /\ uploaded_file' = Set(uploaded_file, s, up)
              /\ IF up # None
                   THEN /\ processing_message' =
                             Set(processing_message, s, Some(InfoProcessing))
                        /\ ui' = Set(ui, s, <<Title, Intro, Uploader>>)
                        /\ pc' = Set(pc, s, "save_create")
                   ELSE /\ processing_message' = Set(processing_message, s, None)
                        /\ ui' = Set(ui, s, APIKeyCheck(c, <<Title, Intro, Uploader>>))
                        /\ pc' = Set(pc, s, "done")
  /\ UNCHANGED <<env_key, offered, fs>>

\* Line 13: NamedTemporaryFile(delete=False, suffix=...) creates and opens a
\* file under a fresh name, or raises.
SaveCreate(s) ==
  /\ pc[s] = "save_create"
  /\ events' = Set(events, s, Append(events[s], "save"))
  /\ \/ \E st \in Stems :
          LET p == [stem |-> st, suffix |-> Suffix(uploaded_file[s][1].name)] IN
          /\ FreeName(p)
          /\ fs' = [fs EXCEPT ![p] = File(RunId(s), <<>>)]
          /\ tmp_file' = Set(tmp_file, s, Some(p))
          /\ pc' = Set(pc, s, "save_write")
          /\ UNCHANGED <<temp_path, ui, processing_message>>
     \/ /\ SaveRaised(s, "OSError: cannot create")
        /\ UNCHANGED <<fs, tmp_file>>
  /\ UNCHANGED <<env_key, offered, run, client, uploaded_file, audio_file,
                 transcript, summary, responses>>

\* Variant: the path returned from inside the with block, the file still
\* open for writing.
SaveWrite_NoClose(s) ==
  /\ pc[s] = "save_write"
  /\ LET p == tmp_file[s][1]
         buf == uploaded_file[s][1].buf
     IN  \/ /\ fs' = [fs EXCEPT ![p].content = buf]
            /\ UNCHANGED tmp_file
            /\ AfterSave(s, Some(p), ui[s])
         \/ \E k \in 0..(Len(buf) - 1) :
            /\ fs' = [fs EXCEPT ![p].content = SubSeq(buf, 1, k)]
            /\ tmp_file' = Set(tmp_file, s, None)
            /\ SaveRaised(s, "OSError: write failed")
  /\ UNCHANGED <<env_key, offered, run, client, uploaded_file, audio_file,
                 transcript, summary, events, responses>>

\* Lines 14-18: tmp_file.write(buffer) writes all of the buffer and line 15
\* returns the name, or the write raises having written less and line 16
\* catches; either way the with statement closes the file.
SaveWrite(s) ==
  /\ pc[s] = "save_write"
  /\ tmp_file' = Set(tmp_file, s, None)
  /\ LET p == tmp_file[s][1]
         buf == uploaded_file[s][1].buf
     IN  \/ /\ fs' = [fs EXCEPT ![p].content = buf]
            /\ AfterSave(s, Some(p), ui[s])
         \/ \E k \in 0..(Len(buf) - 1) :
            /\ fs' = [fs EXCEPT ![p].content = SubSeq(buf, 1, k)]
            /\ SaveRaised(s, "OSError: write failed")
  /\ UNCHANGED <<env_key, offered, run, client, uploaded_file, audio_file,
                 transcript, summary, events, responses>>

\* Variant: the temp file removed as soon as it has been opened.
TranscribeOpen_UnlinkEarly(s) ==
  /\ pc[s] = "open"
  /\ LET p == temp_path[s][1] IN
       /\ fs' = [fs EXCEPT ![p] = NoFile]
       /\ audio_file' = Set(audio_file, s, Some(p))
       /\ events' = Set(events, s, Append(events[s], "transcribe"))
       /\ pc' = Set(pc, s, "transcribing")
  /\ UNCHANGED <<env_key, offered, run, client, uploaded_file, tmp_file, temp_path,
                 transcript, summary, ui, processing_message, responses>>

\* Lines 23-26: open(audio_path, "rb"), the sleep, and the request is sent.
TranscribeOpen(s) ==
  /\ pc[s] = "open"
  /\ LET p == temp_path[s][1] IN
       IF fs[p].exists
         THEN /\ audio_file' = Set(audio_file, s, Some(p))
              /\ events' = Set(events, s, Append(events[s], "transcribe"))
              /\ pc' = Set(pc, s, "transcribing")
              /\ UNCHANGED <<transcript, ui, processing_message>>
         ELSE /\ UNCHANGED audio_file
              /\ TranscribeEnds(s, Raised("FileNotFoundError"))
  /\ UNCHANGED <<env_key, offered, fs, run, client, uploaded_file, tmp_file,
                 temp_path, summary, responses>>

\* Lines 26-36: the transcription call returns or raises; the with statement
\* closes the audio file.
TranscribeReturn(s) ==
  /\ pc[s] = "transcribing"
  /\ audio_file' = Set(audio_file, s, None)
  /\ \E resp \in TranscriptionResponses :
       /\ responses' = Set(responses, s, Append(responses[s], resp))
       /\ TranscribeEnds(s, resp)
  /\ UNCHANGED <<env_key, offered, fs, run, client, uploaded_file, tmp_file,
                 temp_path, summary>>

\* Lines 43-60: the chat completion call returns or raises.
SummarizeReturn(s) ==
  /\ pc[s] = "summarizing"
  /\ \E resp \in SummarizationResponses :
       /\ responses' = Set(responses, s, Append(responses[s], resp))
       /\ SummarizeEnds(s, resp)
  /\ UNCHANGED <<env_key, offered, fs, run, client, uploaded_file, tmp_file,
                 temp_path, audio_file, transcript, events>>

\* Variant: a failed deletion reported as an error of the run.
Unlink_Fatal(s) ==
  /\ pc[s] = "unlink"
  /\ events' = Set(events, s, Append(events[s], "unlink"))
  /\ LET p == temp_path[s][1] IN
       \/ /\ fs[p].exists
          /\ fs' = [fs EXCEPT ![p] = NoFile]
          /\ ui' = Set(ui, s, APIKeyCheck(client[s][1], ui[s]))
          /\ UNCHANGED processing_message
       \/ /\ UNCHANGED fs
          /\ ui' = Set(ui, s,
                 APIKeyCheck(client[s][1],
                             Append(ui[s], Elem("error", "Could not delete temporary file: ",
                                                "OSError"))))
          /\ processing_message' = Set(processing_message, s, None)
  /\ pc' = Set(pc, s, "done")
  /\ UNCHANGED <<env_key, offered, run, client, uploaded_file, tmp_file, temp_path,
                 audio_file, transcript, summary, responses>>

\* Lines 103-114: Path(temp_path).unlink() removes the file or raises, which
\* is shown as a warning; the API key check ends the script.
Unlink(s) ==
  /\ pc[s] = "unlink"
  /\ events' = Set(events, s, Append(events[s], "unlink"))
  /\ LET p == temp_path[s][1] IN
       \/ /\ fs[p].exists
          /\ fs' = [fs EXCEPT ![p] = NoFile]
          /\ ui' = Set(ui, s, APIKeyCheck(client[s][1], ui[s]))
       \/ /\ UNCHANGED fs
          /\ ui' = Set(ui, s,
                 APIKeyCheck(client[s][1], Append(ui[s], WarnDelete("OSError"))))
  /\ pc' = Set(pc, s, "done")
  /\ UNCHANGED <<env_key, offered, run, client, uploaded_file, tmp_file, temp_path,
                 audio_file, transcript, summary, processing_message, responses>>

Next ==
  \E s \in Sessions :
    \/ Start(s)
    \/ SaveCreate(s)
    \/ SaveWrite(s)
    \/ TranscribeOpen(s)
    \/ TranscribeReturn(s)
    \/ SummarizeReturn(s)
    \/ Unlink(s)

Spec == Init /\ [][Next]_vars

SpecStaging == InitStaging /\ [][Next]_vars

\* The steps of a session's script execution once it has started.
Step(s) ==
  \/ SaveCreate(s)
  \/ SaveWrite(s)
  \/ TranscribeOpen(s)
  \/ TranscribeReturn(s)
  \/ SummarizeReturn(s)
  \/ Unlink(s)

\* The process has its API key and the users have the first upload.
InitLive ==
  /\ env_key = Some("sk-key")
  /\ offered = [name |-> <<"call", ".", "wav">>, buf |-> <<1, 2>>]
  /\ InitSessions

\* Every file operation and every remote call returns or raises in the end,
\* and a script thread that can go on does; users start executions when
\* they like, or never.
SpecLive == InitLive /\ [][Next]_vars /\ \A s \in Sessions : WF_vars(Step(s))

\* ------------------------------------------------ vocabulary of the claims
Count(seq, x) == Cardinality({ i \in DOMAIN seq : seq[i] = x })
Shown(s, e) == \E i \in DOMAIN ui[s] : ui[s][i] = e
ShownLike(s, w, msg) == \E i \in DOMAIN ui[s] : ui[s][i].w = w /\ ui[s][i].msg = msg
TranscriptShown(s) == ShownLike(s, "text_area", "Full Transcript")
SummaryShown(s) == ShownLike(s, "write", "")
WarningShown(s) == ShownLike(s, "warning", "Warning: Could not delete temporary file: ")

\* A run is a script execution with an upload; it has ended when the script has.
Ended(s) == pc[s] = "done" /\ uploaded_file[s] # None
\* The run states of the specification, as far as the script shows them.
Done(s) == Ended(s) /\ processing_message[s] = Some(SuccessComplete)
Failed(s) ==
  /\ Ended(s)
  /\ processing_message[s] # Some(SuccessComplete)
  /\ \E i \in DOMAIN ui[s] : ui[s][i].w = "error" /\ ui[s][i] # ErrNoKey
Staged(s) == temp_path[s] # None
StagingFailed(s) == Ended(s) /\ ~Staged(s)

GoodResponse(r) == ~r.raised /\ Truthy(r.value)
EmptyResponse(r) == ~r.raised /\ ~Truthy(r.value)
TranscriptionAnswered(s) == Len(responses[s]) >= 1
SummarizationAnswered(s) == Len(responses[s]) >= 2
TranscriptionFailed(s) == TranscriptionAnswered(s) /\ ~GoodResponse(responses[s][1])
SummarizationFailed(s) == SummarizationAnswered(s) /\ ~GoodResponse(responses[s][2])

\* The file at p is the one this session's current run created.
Owns(s, p) == fs[p].exists /\ fs[p].owner = RunId(s)
\* The temp file the run staged is still in the filesystem.
StagedFileExists(s) == Staged(s) /\ Owns(s, temp_path[s][1])

\* ------------------------------------------------------------------- C1
\* C1 (as stated): in every run that has ended, whichever stage failed,
\* staging included, the deletion of the temp file was attempted exactly once.
C1_CleanupExactlyOnceEveryRun ==
  \A s \in Sessions : Ended(s) => Count(events[s], "unlink") = 1

\* C1 (amended): deletion is never attempted twice; a run that has ended has
\* attempted it exactly once if staging returned a path, and not at all if
\* staging failed.
C1_CleanupOncePerStagedFile ==
  \A s \in Sessions :
    /\ Count(events[s], "unlink") <= 1
    /\ Ended(s) => Count(events[s], "unlink") = (IF Staged(s) THEN 1 ELSE 0)

C1_Witness ==
  \E s \in Sessions :
    /\ Ended(s) /\ Staged(s) /\ TranscriptionFailed(s)
    /\ Count(events[s], "unlink") = 1

\* ------------------------------------------------------------------- C2
\* C2: the summarization service is only ever invoked with a non-empty
\* transcript; a run whose transcription returned an empty or null result
\* never invokes it, shows the "empty result" cause and ends Failed.
C2_EmptyTranscriptionStops ==
  \A s \in Sessions :
    /\ Count(events[s], "summarize") > 0 =>
         /\ Truthy(transcript[s])
         /\ GoodResponse(responses[s][1])
         /\ transcript[s] = responses[s][1].value
    /\ (TranscriptionAnswered(s) /\ EmptyResponse(responses[s][1])) =>
         /\ Count(events[s], "summarize") = 0
         /\ pc[s] \in {"unlink", "done"}
         /\ Shown(s, ErrTranscription(EmptyTranscription))
         /\ Shown(s, ErrFailedTranscribe)
         /\ processing_message[s] # Some(SuccessComplete)
         /\ (pc[s] = "done" => Failed(s))

C2_Witness ==
  \E s \in Sessions :
    /\ pc[s] = "done"
    /\ TranscriptionAnswered(s)
    /\ responses[s][1] = Returned(Some(""))
    /\ Failed(s)

\* ------------------------------------------------------------------- C3
\* C3: once summarization has failed after a successful transcription, the
\* transcript is rendered and stays rendered until the run's end, no summary
\* is rendered, and the summarization errors are shown.
C3_TranscriptSurvivesSummaryFailure ==
  \A s \in Sessions :
    SummarizationFailed(s) =>
      /\ Shown(s, TextAreaTranscript(responses[s][1].value[1]))
      /\ ~SummaryShown(s)
      /\ ShownLike(s, "error", "Summarization error: ")
      /\ Shown(s, ErrFailedSummary)
      /\ ~Shown(s, ErrFailedTranscribe)
      /\ processing_message[s] # Some(SuccessComplete)
      /\ (pc[s] = "done" => Failed(s))

C3_Witness ==
  \E s \in Sessions :
    /\ pc[s] = "done"
    /\ SummarizationFailed(s)
    /\ TranscriptShown(s)

\* ------------------------------------------------------------------- C4
\* C4: the stages start in the order staging, transcription, summarization;
\* the transcription call is made only with a path that staging returned, the
\* summarization call only with a non-empty transcript that transcription
\* returned.
C4_StagesInOrder ==
  \A s \in Sessions :
    \A i \in DOMAIN events[s] :
      /\ events[s][i] = "save" => i = 1
      /\ events[s][i] = "transcribe" =>
           /\ i = 2 /\ events[s][1] = "save"
           /\ Staged(s)
      /\ events[s][i] = "summarize" =>
           /\ i = 3 /\ events[s][2] = "transcribe"
           /\ TranscriptionAnswered(s) /\ GoodResponse(responses[s][1])
           /\ Truthy(transcript[s])
      /\ events[s][i] = "unlink" => i > 2

C4_Witness ==
  \E s \in Sessions : events[s] = <<"save", "transcribe", "summarize", "unlink">>

\* ------------------------------------------------------------------- C5
\* What a failed transcription leaves of a run, whatever the cause was.
TranscriptionFailureOutcome(s) ==
  /\ Failed(s)
  /\ ~TranscriptShown(s) /\ ~SummaryShown(s)
  /\ ShownLike(s, "error", "Transcription error: ")
  /\ Shown(s, ErrFailedTranscribe)
  /\ transcript[s] = None /\ summary[s] = None
  /\ processing_message[s] = Some(InfoTranscribing)
  /\ events[s] = <<"save", "transcribe", "unlink">>

\* C5 (as stated): a run whose transcription raised or returned an empty
\* result ends Failed with neither transcript nor summary rendered, and its
\* temp file is deleted.
C5_TranscriptionFailureFileDeleted ==
  \A s \in Sessions :
    (Ended(s) /\ TranscriptionFailed(s)) =>
      /\ TranscriptionFailureOutcome(s)
      /\ ~StagedFileExists(s)

\* C5 (amended): such a run ends Failed with neither transcript nor summary
\* rendered, the same for both causes, and the deletion of its temp file is
\* attempted; the file is gone unless that deletion failed, which a warning
\* reports.
C5_TranscriptionFailureCleanupAttempted ==
  \A s \in Sessions :
    (Ended(s) /\ TranscriptionFailed(s)) =>
      /\ TranscriptionFailureOutcome(s)
      /\ StagedFileExists(s) => WarningShown(s)

C5_Witness ==
  \E s \in Sessions :
    /\ Ended(s)
    /\ TranscriptionAnswered(s) /\ responses[s][1].raised
    /\ ~StagedFileExists(s)

\* ------------------------------------------------------------------- C6
\* C6: staging is attempted at most once in a run; a run whose staging failed
\* shows the failure, has invoked neither remote service and has rendered
\* neither transcript nor summary.
C6_StagingFailureEndsRun ==
  \A s \in Sessions :
    /\ Count(events[s], "save") <= 1
    /\ StagingFailed(s) =>
         /\ events[s] = <<"save">>
         /\ responses[s] = <<>>
         /\ ShownLike(s, "error", "Error saving file: ")
         /\ Shown(s, ErrFailedUpload)
         /\ ~TranscriptShown(s) /\ ~SummaryShown(s)
         /\ Failed(s)

C6_Witness ==
  \E s \in Sessions :
    /\ StagingFailed(s)
    /\ Shown(s, ErrSave("OSError: write failed"))

\* ------------------------------------------------------------------- C7
\* Done exactly for the runs whose three stages succeeded, transcript and
\* summary rendered in them.
DoneIffAllStagesSucceeded(s) ==
  /\ Done(s) <=>
       /\ Staged(s)
       /\ TranscriptionAnswered(s) /\ GoodResponse(responses[s][1])
       /\ SummarizationAnswered(s) /\ GoodResponse(responses[s][2])
  /\ Done(s) =>
       /\ Shown(s, TextAreaTranscript(responses[s][1].value[1]))
       /\ Shown(s, WriteSummary(responses[s][2].value[1]))

\* C7 (as stated): a run is Done if and only if staging, transcription and
\* summarization all succeeded; in a Done run transcript and summary are
\* rendered and the temp file has been deleted.
C7_DoneFileDeleted ==
  \A s \in Sessions :
    Ended(s) =>
      /\ DoneIffAllStagesSucceeded(s)
      /\ Done(s) => ~StagedFileExists(s)

\* C7 (amended): the same, but of the temp file only that its deletion has
\* been attempted once: it is gone unless the deletion failed, which a
\* warning reports.
C7_DoneCleanupAttempted ==
  \A s \in Sessions :
    Ended(s) =>
      /\ DoneIffAllStagesSucceeded(s)
      /\ Done(s) =>
           /\ Count(events[s], "unlink") = 1
           /\ StagedFileExists(s) => WarningShown(s)

C7_Witness ==
  \E s \in Sessions : Done(s) /\ ~StagedFileExists(s) /\ ~WarningShown(s)

\* ------------------------------------------------------------------- C8
\* C8: every file a run has open for writing or reading, and the file behind
\* the path it is about to open or delete, is the one that run created; so
\* two runs, same upload or not, overlapping or not, never hold the same path
\* at once.
C8_OwnTempFile ==
  \A s \in Sessions :
    /\ tmp_file[s] # None => Owns(s, tmp_file[s][1])
    /\ audio_file[s] # None => Owns(s, audio_file[s][1])
    /\ pc[s] \in {"open", "transcribing", "summarizing", "unlink"} =>
         StagedFileExists(s)
    /\ \A t \in Sessions \ {s} :
         (StagedFileExists(s) /\ StagedFileExists(t)) => temp_path[s] # temp_path[t]

C8_Witness ==
  \E s, t \in Sessions :
    /\ s # t
    /\ uploaded_file[s] # None /\ uploaded_file[s] = uploaded_file[t]
    /\ pc[s] = "transcribing" /\ pc[t] = "transcribing"
    /\ temp_path[s] # temp_path[t]

\* ------------------------------------------------------------------- C9
\* C9: the step that attempts the deletion ends the script, leaves the status
\* indicator, the transcript, the summary and everything rendered so far as
\* they are, starts no other operation, and renders nothing but the warning
\* (when the deletion failed) and the API key banner.
C9_DeletionFailureIsWarningOnly ==
  [][ \A s \in Sessions :
        (pc[s] = "unlink" /\ pc'[s] # "unlink") =>
          /\ pc'[s] = "done"
          /\ processing_message'[s] = processing_message[s]
          /\ transcript'[s] = transcript[s] /\ summary'[s] = summary[s]
          /\ responses'[s] = responses[s]
          /\ events'[s] = Append(events[s], "unlink")
          /\ Len(ui'[s]) >= Len(ui[s])
          /\ SubSeq(ui'[s], 1, Len(ui[s])) = ui[s]
          /\ \A i \in (Len(ui[s]) + 1)..Len(ui'[s]) :
               ui'[s][i] = ErrNoKey \/ ui'[s][i] = WarnDelete("OSError")
          /\ Owns(s, temp_path[s][1])' =>
               \E i \in (Len(ui[s]) + 1)..Len(ui'[s]) : ui'[s][i] = WarnDelete("OSError")
    ]_vars

C9_Witness ==
  \E s \in Sessions : Done(s) /\ StagedFileExists(s) /\ WarningShown(s)

\* ------------------------------------------------------------------ C10
\* C10: with no API key in the environment no script execution stops on an
\* uncaught exception, and every execution that ends has rendered the
\* configuration error banner.
C10_BannerWithoutKey ==
  \A s \in Sessions :
    ~Truthy(env_key) =>
      /\ pc[s] # "crashed"
      /\ pc[s] = "done" => Shown(s, ErrNoKey)

\* ------------------------------------------------------------------ C11
\* The extension of an uploaded file's name: its last dot and what follows.
Extension(name) == SubSeq(name, Len(name) - 1, Len(name))

\* C11: for every upload with a non-empty buffer and a name ending in .mp3,
\* .wav or .m4a, the path that staging has returned names, for as long as the
\* run has not deleted it, a closed file whose content is the buffer and
\* whose suffix is the extension of the uploaded name.
C11_StagedFileIsTheUpload ==
  \A s \in Sessions :
    (Staged(s) /\ pc[s] \in {"open", "transcribing", "summarizing", "unlink"}) =>
      LET p == temp_path[s][1]
          u == uploaded_file[s][1]
      IN  /\ Len(u.buf) > 0
          /\ Extension(u.name) \in { <<".", "mp3">>, <<".", "wav">>, <<".", "m4a">> }
          /\ fs[p].exists
          /\ fs[p].content = u.buf
          /\ p.suffix = Extension(u.name)
          /\ \A t \in Sessions : tmp_file[t] # Some(p)

C11_Witness ==
  \E s \in Sessions :
    /\ pc[s] = "open"
    /\ uploaded_file[s][1].name = <<"a", ".", "b", ".", "mp3">>
    /\ temp_path[s][1].suffix = <<".", "mp3">>
    /\ fs[temp_path[s][1]].content = uploaded_file[s][1].buf

\* ------------------------------------------------------------------ C12
\* C12: in every run, failed or not, the transcription call is made at most
\* once and the summarization call at most once, and each is answered at
\* most once.
C12_NoStageRetried ==
  \A s \in Sessions :
    /\ Count(events[s], "transcribe") <= 1
    /\ Count(events[s], "summarize") <= 1
    /\ Len(responses[s]) <= Count(events[s], "transcribe") + Count(events[s], "summarize")

C12_Witness ==
  \E s \in Sessions :
    /\ Ended(s)
    /\ TranscriptionFailed(s)
    /\ Count(events[s], "transcribe") = 1

\* ------------------------------------------------------------------ C13
\* Every remote call the run has started has been answered.
NoCallInFlight(s) ==
  Len(responses[s]) = Count(events[s], "transcribe") + Count(events[s], "summarize")

\* C13: while the transcription call or the summarization call is in flight
\* the staged file exists and no deletion has been attempted; the file is
\* there for as long as transcribe_audio has it open; a deletion is attempted
\* only when no call is in flight.
C13_CleanupAfterLastStage ==
  \A s \in Sessions :
    /\ pc[s] \in {"transcribing", "summarizing"} =>
         /\ StagedFileExists(s)
         /\ Count(events[s], "unlink") = 0
    /\ pc[s] = "transcribing" => audio_file[s] = temp_path[s]
    /\ audio_file[s] # None => fs[audio_file[s][1]].exists
    /\ Count(events[s], "unlink") > 0 => NoCallInFlight(s)
    /\ pc[s] = "unlink" => NoCallInFlight(s)

C13_Witness ==
  \E s, t \in Sessions :
    /\ pc[s] = "transcribing" /\ StagedFileExists(s)
    /\ Ended(t) /\ Count(events[t], "unlink") = 1

\* ------------------------------------------------------------------ C14
\* C14: a failed stage has shown its own error message; the orchestrator's
\* handler for an exception that escaped a stage (line 100) never runs; no
\* script execution with an upload stops on an uncaught exception; and a run
\* that has ended is Done or has shown an error message.
C14_FailuresCaughtAndShown ==
  \A s \in Sessions :
    /\ ~ShownLike(s, "error", "An unexpected error occurred: ")
    /\ ~(pc[s] = "crashed" /\ uploaded_file[s] # None)
    /\ StagingFailed(s) => ShownLike(s, "error", "Error saving file: ")
    /\ TranscriptionFailed(s) => ShownLike(s, "error", "Transcription error: ")
    /\ SummarizationFailed(s) => ShownLike(s, "error", "Summarization error: ")
    /\ Ended(s) => (Done(s) \/ Failed(s))

C14_Witness ==
  \E s \in Sessions :
    /\ Ended(s) /\ ~Done(s)
    /\ TranscriptionAnswered(s) /\ responses[s][1].raised
    /\ Shown(s, ErrTranscription("APIConnectionError"))

\* ------------------------------------------------------------------ C15
\* What a run that has ended must have rendered, given only what is its own:
\* the client of its execution, whether its staging returned a path, the two
\* responses it got, and the outcomes of its own file operations (the save
\* error e, the deletion warning w).
RenderedFromOwnRun(s, e, w) ==
  LET r == responses[s]
      cause1 == IF r[1].raised THEN r[1].e ELSE EmptyTranscription
      cause2 == IF r[2].raised THEN r[2].e ELSE EmptySummary
      body ==
        IF ~Staged(s) THEN <<ErrSave(e), ErrFailedUpload>>
        ELSE IF ~GoodResponse(r[1])
          THEN <<ErrTranscription(cause1), ErrFailedTranscribe>>
        ELSE <<SubheaderTranscript, TextAreaTranscript(r[1].value[1])>> \o
             (IF GoodResponse(r[2])
                THEN <<SubheaderSummary, WriteSummary(r[2].value[1])>>
                ELSE <<ErrSummarization(cause2), ErrFailedSummary>>)
  IN  APIKeyCheck(client[s][1], <<Title, Intro, Uploader>> \o body \o w)

\* The state of a script execution that has just started.
FreshExecution(s) ==
  /\ events[s] = <<>> /\ responses[s] = <<>>
  /\ transcript[s] = None /\ summary[s] = None
  /\ temp_path[s] = None /\ tmp_file[s] = None /\ audio_file[s] = None
  /\ \/ pc[s] = "crashed" /\ uploaded_file[s] = None
     \/ pc[s] = "done" /\ uploaded_file[s] = None /\ processing_message[s] = None
     \/ /\ pc[s] = "save_create" /\ uploaded_file[s] # None
        /\ processing_message[s] = Some(InfoProcessing)
        /\ ui[s] = <<Title, Intro, Uploader>>

\* C15: after a script execution has ended, in whatever way, the session can
\* start another one (as long as the bound on executions allows); an execution
\* starts from the same fresh state whatever came before it and touches no
\* file in starting; and what a run has rendered when it has ended is a
\* function of its own upload's staging, its own responses and its own
\* deletion alone.
C15_FreshRunAfterEveryEnd ==
  /\ [](\A s \in Sessions :
          /\ (pc[s] \in {"done", "crashed"} /\ RunsStarted < MaxRuns) => ENABLED Start(s)
          /\ Ended(s) =>
               \E e \in {"OSError: cannot create", "OSError: write failed"} :
                 \E w \in {<<>>, <<WarnDelete("OSError")>>} :
                   /\ ui[s] = RenderedFromOwnRun(s, e, w)
                   /\ ~Staged(s) => w = <<>>)
  /\ [][ \A s \in Sessions :
           run'[s] # run[s] =>
             /\ pc[s] \in {"idle", "done", "crashed"}
             /\ run'[s] = run[s] + 1
             /\ FreshExecution(s)'
             /\ fs' = fs
       ]_vars

C15_Witness ==
  \E s \in Sessions :
    /\ run[s] = 2 /\ Done(s)
    /\ \E p \in Paths : fs[p].exists /\ fs[p].owner = <<s, 1>>

\* ------------------------------------------------------------------ C16
\* Once a run is Done or Failed (its cleanup pending or over) it starts no
\* stage and no remote call, gets no response and keeps its status indicator.
TerminalIsAbsorbing ==
  [][ \A s \in Sessions :
        (pc[s] \in {"unlink", "done"} /\ run'[s] = run[s]) =>
          /\ pc'[s] \in {"unlink", "done"}
          /\ pc[s] = "done" => (pc'[s] = "done" /\ events'[s] = events[s] /\ ui'[s] = ui[s])
          /\ events'[s] \in {events[s], Append(events[s], "unlink")}
          /\ responses'[s] = responses[s]
          /\ processing_message'[s] = processing_message[s]
          /\ transcript'[s] = transcript[s] /\ summary'[s] = summary[s]
    ]_vars

\* C16 (as stated): every run that starts reaches its end and has then
\* attempted the cleanup, and Done and Failed are absorbing.
C16_EveryRunEndsAndCleansUp ==
  /\ \A s \in Sessions :
       (pc[s] = "save_create") ~> (Ended(s) /\ Count(events[s], "unlink") = 1)
  /\ TerminalIsAbsorbing

\* C16 (amended): every run that starts reaches its end, and has then
\* attempted the cleanup if its staging returned a path (no cleanup when
\* staging failed); Done and Failed are absorbing.
C16_EveryRunEnds ==
  /\ \A s \in Sessions :
       (pc[s] = "save_create") ~>
         (Ended(s) /\ Count(events[s], "unlink") = (IF Staged(s) THEN 1 ELSE 0))
  /\ TerminalIsAbsorbing

C16_Witness ==
  \E s \in Sessions :
    /\ Ended(s) /\ SummarizationFailed(s)
    /\ Count(events[s], "unlink") = 1

\* ------------------------------------------------------------------ C17
\* C17 (as stated): after a run has ended, a temp file it created is still in
\* the filesystem only if a deletion attempt failed and a warning was shown;
\* in particular not after a failed write.
C17_NoTempFileLeftUnreported ==
  \A s \in Sessions :
    Ended(s) =>
      \A p \in Paths :
        Owns(s, p) => (Count(events[s], "unlink") = 1 /\ WarningShown(s))

\* ------------------------------------------------------------------ C18
\* The in-progress message of the stage a failed run was in.
StatusOfFailedStage(s) ==
  IF ~Staged(s) THEN InfoProcessing
  ELSE IF ~(TranscriptionAnswered(s) /\ GoodResponse(responses[s][1])) THEN InfoTranscribing
  ELSE InfoGenerating

\* C18: the status indicator shows the success message exactly when the run
\* obtained both the transcript and the summary; a run that failed at
\* staging, transcription or summarization is left, through its cleanup and
\* at its end, with the in-progress message of the stage that failed.
C18_StatusIndicator ==
  \A s \in Sessions :
    /\ processing_message[s] = Some(SuccessComplete) <=>
         /\ Truthy(transcript[s]) /\ Truthy(summary[s])
         /\ SummarizationAnswered(s)
         /\ GoodResponse(responses[s][1]) /\ GoodResponse(responses[s][2])
    /\ (uploaded_file[s] # None /\ pc[s] \in {"unlink", "done"}
          /\ ~(Truthy(transcript[s]) /\ Truthy(summary[s]))) =>
         processing_message[s] = Some(StatusOfFailedStage(s))

C18_Witness ==
  /\ \E s \in Sessions : Ended(s) /\ TranscriptionFailed(s)
                           /\ processing_message[s] = Some(InfoTranscribing)
  /\ \E s \in Sessions : Ended(s) /\ SummarizationFailed(s)
                           /\ processing_message[s] = Some(InfoGenerating)

\* ------------------------------------------------------------------ C19
\* C19: while the transcription stage is about to open the staged file or has
\* it open, no run holds that file open for writing and the file holds the
\* whole upload, unless it has been taken away since it was staged.
C19_WrittenAndClosedBeforeOpened ==
  \A s \in Sessions :
    /\ pc[s] \in {"open", "transcribing"} =>
         /\ Staged(s)
         /\ \A t \in Sessions : tmp_file[t] # temp_path[s]
         /\ StagedFileExists(s) =>
              fs[temp_path[s][1]].content = uploaded_file[s][1].buf
    /\ audio_file[s] # None =>
         /\ pc[s] = "transcribing"
         /\ audio_file[s] = temp_path[s]
         /\ StagedFileExists(s)

C19_Witness ==
  \E s, t \in Sessions :
    /\ audio_file[s] # None
    /\ pc[t] = "save_write" /\ tmp_file[t] # None

====
